---- MODULE Spec2Model ----
(***************************************************************************)
(* Register-mirrored I2C GPIO expander drivers of hw-i2c:                   *)
(*   I2C_GPIO_Expander       (i2c_gpio_expander.py, the generic base class, *)
(*                            configured as dev_max7318.py configures it)   *)
(*   PCA9538A_GPIO_Expander  (dev_PCA9538A.py, the stand-alone 8-pin class) *)
(* over the bus transport of i2c_driver.py.                                 *)
(*                                                                          *)
(* A behaviour is a caller issuing one driver call after another.  A call   *)
(* is one step (pc: "idle" -> "returned") that runs the whole method; the   *)
(* record `last` is what the caller and the bus transport observed of it.   *)
(* The step `collect` is the caller taking the outcome and going on.        *)
(*                                                                          *)
(* Further specifications of the module: the bulk operations of both        *)
(* classes (SpecBulk), a caller of the 8-pin class on pins 0..2             *)
(* (SpecScenario), enable called from two threads (SpecThreads), the menu  *)
(* loop of cli_app.py (SpecCli), register changes made behind the driver's  *)
(* back (SpecOutOfBand), every public operation of the base class (SpecOps),*)
(* the earlier 16-pin class of toupdate/x.max7318.py (SpecLegacy) and the   *)
(* bus switches of toupdate/pca9546a.py and pca9548a.py (SpecSwitch).       *)
(***************************************************************************)
EXTENDS Integers, Sequences, FiniteSets, TLC

VARIABLES
    cls,        \* class of the driver instance
    ports,      \* self.ports / PORT_COUNT
    reg_data,   \* self.reg_data: register address -> cached value
    device,     \* the chip's writable registers: register address -> value
    pc,         \* caller position: "idle" | "returned"
    last,       \* observation of the call that has just returned
    history,    \* caller's note of the preceding successful enable / invert
    step,       \* how many calls of the scenario sequence the caller has made
    thr,        \* the threads calling into the driver object: position and locals
    debug,      \* self.debug of the classes written over Adafruit_I2C
    menu,           \* CliApp: self.menu, command -> option
    display_order,  \* CliApp: self.display_order
    quit,           \* CliApp: self.quit
    app_pc,         \* CliApp: "setup" | "added" | "prompt" | "exited" | "raised"; "none": no app
    app_last        \* CliApp: observation of the last add_option / loop turn

app_vars == <<menu, display_order, quit, app_pc, app_last>>

vars == <<cls, ports, reg_data, device, pc, last, history, step, thr, debug, app_vars>>

(***************************************************************************)
(* Bounds of the model                                                      *)
(***************************************************************************)
\* longest pin argument list a call is given
MaxPins == 2

(***************************************************************************)
(* Program constants                                                        *)
(***************************************************************************)
MAX7318_REG_ADDR_INPUTS == 0
MAX7318_REG_ADDR_OUTPUTS == 2
MAX7318_REG_ADDR_POLARITY == 4
MAX7318_REG_ADDR_CONFIG == 6
MAX7318_PORT_COUNT == 16
MAX7318_ALL_ONES == 65535

PCA9538A_REG_ADDR_INPUTS == 0
PCA9538A_REG_ADDR_OUTPUTS == 1
PCA9538A_REG_ADDR_POLARITY == 2
PCA9538A_REG_ADDR_CONFIG == 3
PORT_COUNT == 8
PCA9538A_ALL_ONES == 255

\* dev_addr the __main__ blocks construct the driver objects with (0x70)
DEVICE_ADDR == 112

BASE == "I2C_GPIO_Expander"
PCA == "PCA9538A_GPIO_Expander"

\* MAX7318_REGISTER_STATES, in the (address, state) pair form that
\* I2C_GPIO_Expander.__init__ unpacks; insertion order is the dict's order.
MAX7318_REGISTER_STATES ==
    << <<MAX7318_REG_ADDR_INPUTS, 0>>,
       <<MAX7318_REG_ADDR_OUTPUTS, MAX7318_ALL_ONES>>,
       <<MAX7318_REG_ADDR_POLARITY, 0>>,
       <<MAX7318_REG_ADDR_CONFIG, MAX7318_ALL_ONES>> >>

\* PCA9538A_GPIO_Expander.__init__: reg_data literal (no INPUT entry)
PCA9538A_REGISTER_STATES ==
    << <<PCA9538A_REG_ADDR_OUTPUTS, PCA9538A_ALL_ONES>>,
       <<PCA9538A_REG_ADDR_POLARITY, 0>>,
       <<PCA9538A_REG_ADDR_CONFIG, PCA9538A_ALL_ONES>> >>

RegisterStates(c) == IF c = BASE THEN MAX7318_REGISTER_STATES ELSE PCA9538A_REGISTER_STATES

\* self.input_reg_addr etc. as the subclass assigns them
input_reg_addr(c) == IF c = BASE THEN MAX7318_REG_ADDR_INPUTS ELSE PCA9538A_REG_ADDR_INPUTS
output_reg_addr(c) == IF c = BASE THEN MAX7318_REG_ADDR_OUTPUTS ELSE PCA9538A_REG_ADDR_OUTPUTS
\* variant: the polarity address assigned the output register's
polarity_reg_addr_output(c) == output_reg_addr(c)

polarity_reg_addr(c) == IF c = BASE THEN MAX7318_REG_ADDR_POLARITY ELSE PCA9538A_REG_ADDR_POLARITY
config_reg_addr(c) == IF c = BASE THEN MAX7318_REG_ADDR_CONFIG ELSE PCA9538A_REG_ADDR_CONFIG

PortCount(c) == IF c = BASE THEN MAX7318_PORT_COUNT ELSE PORT_COUNT

\* {reg: state for reg, state in registers}
RegDataOf(registers) ==
    [r \in {registers[i][1] : i \in 1..Len(registers)} |->
        LET i == CHOOSE j \in 1..Len(registers) :
                    /\ registers[j][1] = r
                    /\ \A k \in (j+1)..Len(registers) : registers[k][1] # r
        IN registers[i][2]]

\* list(self.reg_data.keys()): keys in insertion order
RegKeys(c) == [i \in 1..Len(RegisterStates(c)) |-> RegisterStates(c)[i][1]]

WritableRegs(c) == {output_reg_addr(c), polarity_reg_addr(c), config_reg_addr(c)}

(***************************************************************************)
(* Python integer bit operations on non-negative integers                   *)
(***************************************************************************)
RECURSIVE BitAnd(_, _)
BitAnd(x, y) ==
    IF x = 0 \/ y = 0 THEN 0
    ELSE (x % 2) * (y % 2) + 2 * BitAnd(x \div 2, y \div 2)

RECURSIVE BitOr(_, _)
BitOr(x, y) ==
    IF x = 0 THEN y
    ELSE IF y = 0 THEN x
    ELSE (IF x % 2 = 1 \/ y % 2 = 1 THEN 1 ELSE 0) + 2 * BitOr(x \div 2, y \div 2)

\* 1 << pin
Shl(pin) == 2 ^ pin

\* x & ~m for x, m >= 0 (Python's ~m is -m-1, an infinite run of high ones)
BitAndNot(x, m) == x - BitAnd(x, m)

Range(s) == {s[i] : i \in 1..Len(s)}

SeqsUpTo(S, n) == UNION {[1..m -> S] : m \in 0..n}

(***************************************************************************)
(* Inputs the caller and the environment supply                             *)
(***************************************************************************)
\* pin numbers given to the calls: both ends of the valid range and the
\* first value beyond each end
PinSamples(n) == {-1, 0, n - 1, n}

PinLists(n) == SeqsUpTo(PinSamples(n), MaxPins)

\* pin levels the chip presents in its INPUT register
InputSamples(c) == IF c = BASE THEN {1, 1056, 32768} ELSE {0, 1, 128, PCA9538A_ALL_ONES}

IoArgs == {"input", "output", "inout"}

\* a short choice of pin arguments: none, one valid pin, the first pin beyond
\* the range, and a valid pin followed by that one
FewPinLists(n) == { <<>>, <<0>>, <<n>>, <<0, n>> }

\* values another bus master leaves in a register of the chip
OutOfBandSamples == {240}

\* pins of the 8-pin walk-through: two that are made outputs and one that is
\* left an input
ScenarioPins == {0, 1, 2}

ScenarioPinLists == SeqsUpTo(ScenarioPins, MaxPins)

\* the walk-through's calls, in order
Script ==
    << [op |-> "configure", io |-> "output", pins |-> <<0, 1>>],
       [op |-> "disable", io |-> "", pins |-> <<0>>],
       [op |-> "disable", io |-> "", pins |-> <<2>>] >>

\* the caller left the walk-through's sequence
OffScript == -1

(***************************************************************************)
(* Helpers of the driver classes                                            *)
(***************************************************************************)
\* variant: the upper limit compared against self.ports instead of self.ports - 1
validate_pins_upto(pins, n) ==
    \A i \in 1..Len(pins) : ~((pins[i] < 0) \/ (pins[i] > n))

\* variant: only the lower limit checked
validate_pins_nonneg(pins, n) ==
    \A i \in 1..Len(pins) : ~(pins[i] < 0)

\* _validate_pins: TRUE iff the loop raises for no pin
validate_pins(pins, n) ==
    \A i \in 1..Len(pins) : ~((pins[i] < 0) \/ (pins[i] > n - 1))

\* what _validate_pins raises: the base class formats its message with
\* self.port_count, an attribute that is never assigned, so the raise
\* statement itself fails with AttributeError; the PCA9538A class raises
\* Exception(err_msg)
validate_error(c) == IF c = BASE THEN "AttributeError" ELSE "Exception"

\* variant: the CONFIG register compared as a whole, `if config_reg:`
is_input_any(rd, c, pin) == rd[config_reg_addr(c)] # 0

\* _is_input
is_input(rd, c, pin) == BitAnd(Shl(pin), rd[config_reg_addr(c)]) = Shl(pin)

\* variant: new_cfg ^= 1 << pin
RECURSIVE SetPins_toggle(_, _)
SetPins_toggle(new_cfg, pins) ==
    IF pins = <<>> THEN new_cfg
    ELSE SetPins_toggle(new_cfg + Shl(Head(pins)) - 2 * BitAnd(new_cfg, Shl(Head(pins))),
                        Tail(pins))

\* variant: new_cfg = 1 << pin
RECURSIVE SetPins_clobber(_, _)
SetPins_clobber(new_cfg, pins) ==
    IF pins = <<>> THEN new_cfg
    ELSE SetPins_clobber(Shl(Head(pins)), Tail(pins))

\* for pin in pins: new_cfg |= 1 << pin
RECURSIVE SetPins(_, _)
SetPins(new_cfg, pins) ==
    IF pins = <<>> THEN new_cfg
    ELSE SetPins(BitOr(new_cfg, Shl(Head(pins))), Tail(pins))

\* variant: new_cfg &= (1 << pin)
RECURSIVE ClearPins_no_negate(_, _)
ClearPins_no_negate(new_cfg, pins) ==
    IF pins = <<>> THEN new_cfg
    ELSE ClearPins_no_negate(BitAnd(new_cfg, Shl(Head(pins))), Tail(pins))

\* for pin in pins: new_cfg &= ~(1 << pin)
RECURSIVE ClearPins(_, _)
ClearPins(new_cfg, pins) ==
    IF pins = <<>> THEN new_cfg
    ELSE ClearPins(BitAndNot(new_cfg, Shl(Head(pins))), Tail(pins))

\* variant: the warning guarded by `if not self._is_input(pin)`
InputPins_negated(rd, c, pins) == SelectSeq(pins, LAMBDA p : ~is_input(rd, c, p))

\* the pins of a loop for which `if self._is_input(pin)` holds, in loop order
InputPins(rd, c, pins) == SelectSeq(pins, LAMBDA p : is_input(rd, c, p))

\* the pins of a loop for which `if not self._is_input(pin)` holds
NonInputPins(rd, c, pins) == SelectSeq(pins, LAMBDA p : ~is_input(rd, c, p))

\* one bus transaction as the transport sees it
Txn(kind, reg, val, ok) == [kind |-> kind, reg |-> reg, val |-> val, ok |-> ok]

\* variant: a failed write attempted a second time before the IOError is raised
BusWrite_retry(reg, data, ok) ==
    IF ok THEN << Txn("write", reg, data, ok) >>
    ELSE << Txn("write", reg, data, FALSE), Txn("write", reg, data, FALSE) >>

\* I2C_Driver.write_*_to_reg under handle_io_error: one attempt, an IOError
\* is re-raised, nothing is retried
BusWrite(reg, data, ok) == << Txn("write", reg, data, ok) >>

\* I2C_Driver.read_*_from_reg under handle_io_error
BusRead(reg, data, ok) == << Txn("read", reg, IF ok THEN data ELSE -1, ok) >>

bus_outcome(ok) == IF ok THEN "ok" ELSE "IOError"

\* reg_data[reg] = data on a dict
Put(rd, reg, data) == [r \in (DOMAIN rd) \cup {reg} |-> IF r = reg THEN data ELSE rd[r]]

\* variant: the shadow assigned before the write method is called
i2c_write_eager(rd, reg, data, ok) == Put(rd, reg, data)

\* variant: the shadow register zeroed when the write fails
i2c_write_zeroed(rd, reg, data, ok) == Put(rd, reg, IF ok THEN data ELSE 0)

\* _i2c_write / _update_reg: the shadow after the write method returned (ok)
\* or raised (~ok)
i2c_write(rd, reg, data, ok) == IF ok THEN Put(rd, reg, data) ELSE rd

\* variant: the value read is returned without being stored
i2c_read_unstored(rd, reg, data, ok) == rd

\* variant: a failed read stores 0
i2c_read_cleared(rd, reg, data, ok) == Put(rd, reg, IF ok THEN data ELSE 0)

\* _i2c_read: the shadow after the read method returned data (ok) or raised
i2c_read(rd, reg, data, ok) == IF ok THEN Put(rd, reg, data) ELSE rd

\* variant: only the low byte of the word reaches the chip
device_write_byte(dev, reg, data, ok) ==
    IF ok /\ reg \in DOMAIN dev THEN [dev EXCEPT ![reg] = data % 256] ELSE dev

\* the chip's register after the transport's write
device_write(dev, reg, data, ok) ==
    IF ok /\ reg \in DOMAIN dev THEN [dev EXCEPT ![reg] = data] ELSE dev

NoResult == [kind |-> "none", map |-> <<>>, int |-> -1]
MapResult(m) == [kind |-> "map", map |-> m, int |-> -1]
IntResult(v) == [kind |-> "int", map |-> <<>>, int |-> v]

\* the arguments the transport method of transaction t was called with:
\* (dev_addr, reg_addr, data) for a write, (dev_addr, reg_addr) for a read
txn_args(t) ==
    IF t.kind = "write" THEN <<DEVICE_ADDR, t.reg, t.val>> ELSE <<DEVICE_ADDR, t.reg>>

NoError == [type |-> "none", text |-> "", values |-> <<>>]

\* variant: the message formatted from the register address, args[1]
handle_io_error_reg(args) ==
    [type |-> "IOError", text |-> "I2C error from addr 0x{:02X}", values |-> << args[2] >>]

\* handle_io_error's except branch: the IOError it raises in place of the
\* transport's, as the format string and the values formatted into it
\* (args[0] of the Python tuple is args[1] here)
handle_io_error(args) ==
    [type |-> "IOError", text |-> "I2C error from addr 0x{:02X}", values |-> << args[1] >>]

\* the exception a call ends with when its last bus transaction failed
raised_error(outcome, txns) ==
    IF outcome = "IOError" /\ txns # <<>>
    THEN handle_io_error(txn_args(txns[Len(txns)]))
    ELSE NoError

NoCall ==
    [op |-> "none", io |-> "", pins |-> <<>>, outcome |-> "none", txns |-> <<>>,
     result |-> NoResult, warns |-> <<>>, before |-> <<>>, error |-> NoError,
     dev_before |-> <<>>]

NoHistory == [op |-> "none", pins |-> {}, before |-> <<>>]

Returned(op, io, pins, outcome, txns, result, warns) ==
    /\ pc' = "returned"
    /\ last' = [op |-> op, io |-> io, pins |-> pins, outcome |-> outcome,
                txns |-> txns, result |-> result, warns |-> warns,
                before |-> reg_data, error |-> raised_error(outcome, txns),
                dev_before |-> device]
    /\ UNCHANGED <<cls, ports, history, step, thr, debug, app_vars>>

\* a call that raises before any bus transaction
Raised(op, io, pins, outcome) ==
    /\ Returned(op, io, pins, outcome, <<>>, NoResult, <<>>)
    /\ UNCHANGED <<reg_data, device>>

\* variant: the register read back from the chip before the write
WriteThrough_fresh(op, io, pins, reg, new_cfg, warns) ==
    \E ok \in BOOLEAN :
        /\ reg_data' = i2c_write(reg_data, reg, new_cfg, ok)
        /\ device' = device_write(device, reg, new_cfg, ok)
        /\ Returned(op, io, pins, bus_outcome(ok),
                    BusRead(reg, device[reg], TRUE) \o BusWrite(reg, new_cfg, ok),
                    NoResult, warns)

\* the tail shared by configure/enable/disable/invert/uninvert:
\* self._i2c_write(reg, new_cfg) after the loop printed `warns`
WriteThrough(op, io, pins, reg, new_cfg, warns) ==
    \E ok \in BOOLEAN :
        /\ reg_data' = i2c_write(reg_data, reg, new_cfg, ok)
        /\ device' = device_write(device, reg, new_cfg, ok)
        /\ Returned(op, io, pins, bus_outcome(ok), BusWrite(reg, new_cfg, ok),
                    NoResult, warns)

(***************************************************************************)
(* The public operations                                                    *)
(***************************************************************************)
\* variant: the two branches of configure exchanged
configure_value_swapped(io, new_cfg, pins) ==
    IF io = "input" THEN ClearPins(new_cfg, pins) ELSE SetPins(new_cfg, pins)

\* the CONFIG value configure computes
configure_value(io, new_cfg, pins) ==
    IF io = "input" THEN SetPins(new_cfg, pins) ELSE ClearPins(new_cfg, pins)

configure(io, pins) ==
    /\ pc = "idle"
    /\ IF ~validate_pins(pins, ports)
       THEN Raised("configure", io, pins, validate_error(cls))
       ELSE IF io \notin {"input", "output"}
       THEN Raised("configure", io, pins, "Exception")
       ELSE LET reg == config_reg_addr(cls)
            IN WriteThrough("configure", io, pins, reg,
                            configure_value(io, reg_data[reg], pins), <<>>)

enable(pins) ==
    /\ pc = "idle"
    /\ IF ~validate_pins(pins, ports)
       THEN Raised("enable", "", pins, validate_error(cls))
       ELSE LET reg == output_reg_addr(cls)
            IN WriteThrough("enable", "", pins, reg, SetPins(reg_data[reg], pins),
                            InputPins(reg_data, cls, pins))

disable(pins) ==
    /\ pc = "idle"
    /\ IF ~validate_pins(pins, ports)
       THEN Raised("disable", "", pins, validate_error(cls))
       ELSE LET reg == output_reg_addr(cls)
            IN WriteThrough("disable", "", pins, reg, ClearPins(reg_data[reg], pins),
                            InputPins(reg_data, cls, pins))

invert(pins) ==
    /\ pc = "idle"
    /\ IF ~validate_pins(pins, ports)
       THEN Raised("invert", "", pins, validate_error(cls))
       ELSE LET reg == polarity_reg_addr(cls)
            IN WriteThrough("invert", "", pins, reg, SetPins(reg_data[reg], pins),
                            InputPins(reg_data, cls, pins))

uninvert(pins) ==
    /\ pc = "idle"
    /\ IF ~validate_pins(pins, ports)
       THEN Raised("uninvert", "", pins, validate_error(cls))
       ELSE LET reg == polarity_reg_addr(cls)
            IN WriteThrough("uninvert", "", pins, reg, ClearPins(reg_data[reg], pins),
                            InputPins(reg_data, cls, pins))

\* variant: the comparison taken first, (1 << pin) & (data == (1 << pin))
decode_pins_compare_first(pins, data) ==
    [p \in Range(pins) |-> BitAnd(Shl(p), IF data = Shl(p) THEN 1 ELSE 0) # 0]

\* result[pin] = (1 << pin) & data == (1 << pin), for pin in pins
decode_pins(pins, data) ==
    [p \in Range(pins) |-> BitAnd(Shl(p), data) = Shl(p)]

\* I2C_GPIO_Expander.read
read(pins) ==
    /\ pc = "idle"
    /\ cls = BASE
    /\ IF ~validate_pins(pins, ports)
       THEN Raised("read", "", pins, validate_error(cls))
       ELSE \E ok \in BOOLEAN : \E data \in (IF ok THEN InputSamples(cls) ELSE {0}) :
            LET reg == input_reg_addr(cls)
            IN /\ reg_data' = i2c_read(reg_data, reg, data, ok)
               /\ UNCHANGED device
               /\ Returned("read", "", pins, bus_outcome(ok), BusRead(reg, data, ok),
                           IF ok THEN MapResult(decode_pins(pins, data)) ELSE NoResult,
                           IF ok THEN NonInputPins(reg_data', cls, pins) ELSE <<>>)

\* the value the transport returns when register reg is read: the pin levels
\* for the INPUT register, the chip's register otherwise
read_value(c, dev, reg, levels) == IF reg = input_reg_addr(c) THEN levels ELSE dev[reg]

\* variant: the values read are stored only when every read succeeded
init_shadow_atomic(c, rd, dev, keys, n, levels) ==
    IF n < Len(keys) THEN rd
    ELSE [r \in (DOMAIN rd) \cup Range(keys) |->
            IF r \in Range(keys) THEN read_value(c, dev, r, levels) ELSE rd[r]]

\* init's loop over the first n keys, every read succeeding:
\* self.reg_data[reg] = self._i2c_read(reg)
RECURSIVE init_shadow(_, _, _, _, _, _)
init_shadow(c, rd, dev, keys, n, levels) ==
    IF n = 0 THEN rd
    ELSE LET reg == keys[n]
             sofar == init_shadow(c, rd, dev, keys, n - 1, levels)
         IN Put(i2c_read(sofar, reg, read_value(c, dev, reg, levels), TRUE),
                reg, read_value(c, dev, reg, levels))

\* the bus reads init issues when its first n reads succeed (and, if n is
\* short of the number of keys, the next one fails)
init_txns(c, dev, keys, n, levels) ==
    [i \in 1..(IF n < Len(keys) THEN n + 1 ELSE n) |->
        Txn("read", keys[i],
            IF i <= n THEN read_value(c, dev, keys[i], levels) ELSE -1, i <= n)]

\* I2C_GPIO_Expander.init
init ==
    /\ pc = "idle"
    /\ cls = BASE
    /\ LET keys == RegKeys(cls)
       IN \E n \in 0..Len(keys) :
          \E levels \in (IF n >= 1 THEN InputSamples(cls) ELSE {0}) :
            /\ reg_data' = init_shadow(cls, reg_data, device, keys, n, levels)
            /\ UNCHANGED device
            /\ Returned("init", "", <<>>, bus_outcome(n = Len(keys)),
                        init_txns(cls, device, keys, n, levels), NoResult, <<>>)

\* I2C_GPIO_Expander.reconfigure: `for reg, cfg in self.reg_data` iterates the
\* dict's keys; a key is an int and cannot be unpacked into (reg, cfg), so the
\* first iteration raises TypeError before any _i2c_write
reconfigure ==
    /\ pc = "idle"
    /\ cls = BASE
    /\ IF DOMAIN reg_data = {}
       THEN /\ Returned("reconfigure", "", <<>>, "ok", <<>>, NoResult, <<>>)
            /\ UNCHANGED <<reg_data, device>>
       ELSE Raised("reconfigure", "", <<>>, "TypeError")

\* PCA9538A_GPIO_Expander.read: one bus read; then for the first pin
\* `(1 << pin) & result` is int & dict and raises TypeError; with no pins the
\* loop is skipped and the method returns a second bus read's integer
pca_read(pins) ==
    /\ pc = "idle"
    /\ cls = PCA
    /\ UNCHANGED <<reg_data, device>>
    /\ LET reg == PCA9538A_REG_ADDR_INPUTS
       IN IF ~validate_pins(pins, PORT_COUNT)
          THEN Returned("read", "", pins, validate_error(cls), <<>>, NoResult, <<>>)
          ELSE \E ok \in BOOLEAN : \E data \in (IF ok THEN InputSamples(cls) ELSE {0}) :
               IF ~ok
               THEN Returned("read", "", pins, "IOError", BusRead(reg, data, FALSE),
                             NoResult, <<>>)
               ELSE IF pins # <<>>
               THEN Returned("read", "", pins, "TypeError", BusRead(reg, data, TRUE),
                             NoResult, <<>>)
               ELSE \E ok2 \in BOOLEAN : \E data2 \in (IF ok2 THEN InputSamples(cls) ELSE {0}) :
                    Returned("read", "", pins, bus_outcome(ok2),
                             BusRead(reg, data, TRUE) \o BusRead(reg, data2, ok2),
                             IF ok2 THEN IntResult(data2) ELSE NoResult, <<>>)

\* self.all_pins = [*range(ports)] / ALL_PINS = [*range(PORT_COUNT)]
all_pins(n) == [i \in 1..n |-> i - 1]

\* I2C_GPIO_Expander.enable_all: self.enable(*self.all_pins)
enable_all ==
    /\ pc = "idle"
    /\ cls = BASE
    /\ LET pins == all_pins(ports)
           reg == output_reg_addr(cls)
       IN IF ~validate_pins(pins, ports)
          THEN Raised("enable_all", "", pins, validate_error(cls))
          ELSE WriteThrough("enable_all", "", pins, reg, SetPins(reg_data[reg], pins),
                            InputPins(reg_data, cls, pins))

\* I2C_GPIO_Expander.disable_all: self.disable(*self.all_pins)
disable_all ==
    /\ pc = "idle"
    /\ cls = BASE
    /\ LET pins == all_pins(ports)
           reg == output_reg_addr(cls)
       IN IF ~validate_pins(pins, ports)
          THEN Raised("disable_all", "", pins, validate_error(cls))
          ELSE WriteThrough("disable_all", "", pins, reg, ClearPins(reg_data[reg], pins),
                            InputPins(reg_data, cls, pins))

\* invert_all of either class: self.invert(*self.all_pins) / self.invert(*ALL_PINS)
invert_all ==
    /\ pc = "idle"
    /\ LET pins == all_pins(ports)
           reg == polarity_reg_addr(cls)
       IN IF ~validate_pins(pins, ports)
          THEN Raised("invert_all", "", pins, validate_error(cls))
          ELSE WriteThrough("invert_all", "", pins, reg, SetPins(reg_data[reg], pins),
                            InputPins(reg_data, cls, pins))

\* uninvert_all of either class
uninvert_all ==
    /\ pc = "idle"
    /\ LET pins == all_pins(ports)
           reg == polarity_reg_addr(cls)
       IN IF ~validate_pins(pins, ports)
          THEN Raised("uninvert_all", "", pins, validate_error(cls))
          ELSE WriteThrough("uninvert_all", "", pins, reg, ClearPins(reg_data[reg], pins),
                            InputPins(reg_data, cls, pins))

\* I2C_GPIO_Expander.read_all: self.read(*self.all_pins) runs as read does,
\* and the mapping it returns is dropped: read_all has no return statement
read_all ==
    /\ pc = "idle"
    /\ cls = BASE
    /\ LET pins == all_pins(ports)
           reg == input_reg_addr(cls)
       IN IF ~validate_pins(pins, ports)
          THEN Raised("read_all", "", pins, validate_error(cls))
          ELSE \E ok \in BOOLEAN : \E data \in (IF ok THEN InputSamples(cls) ELSE {0}) :
               /\ reg_data' = i2c_read(reg_data, reg, data, ok)
               /\ UNCHANGED device
               /\ Returned("read_all", "", pins, bus_outcome(ok), BusRead(reg, data, ok),
                           NoResult,
                           IF ok THEN NonInputPins(reg_data', cls, pins) ELSE <<>>)

\* PCA9538A_GPIO_Expander.enable_all: self.set(*ALL_PINS); the class has no
\* attribute `set`, the lookup raises AttributeError
pca_enable_all ==
    /\ pc = "idle"
    /\ cls = PCA
    /\ Raised("enable_all", "", all_pins(PORT_COUNT), "AttributeError")

\* PCA9538A_GPIO_Expander.disable_all: self.reset(*ALL_PINS), no such attribute
pca_disable_all ==
    /\ pc = "idle"
    /\ cls = PCA
    /\ Raised("disable_all", "", all_pins(PORT_COUNT), "AttributeError")

\* PCA9538A_GPIO_Expander.read_all: self.read() with no pin; read does its
\* two bus reads and the integer it returns is dropped
pca_read_all ==
    /\ pc = "idle"
    /\ cls = PCA
    /\ UNCHANGED <<reg_data, device>>
    /\ LET reg == PCA9538A_REG_ADDR_INPUTS
       IN \E ok \in BOOLEAN : \E data \in (IF ok THEN InputSamples(cls) ELSE {0}) :
          IF ~ok
          THEN Returned("read_all", "", <<>>, "IOError", BusRead(reg, data, FALSE),
                        NoResult, <<>>)
          ELSE \E ok2 \in BOOLEAN : \E data2 \in (IF ok2 THEN InputSamples(cls) ELSE {0}) :
               Returned("read_all", "", <<>>, bus_outcome(ok2),
                        BusRead(reg, data, TRUE) \o BusRead(reg, data2, ok2),
                        NoResult, <<>>)

\* another master on the bus writes val to register reg of the chip while the
\* driver is between two calls
out_of_band(reg, val) ==
    /\ pc = "idle"
    /\ reg \in DOMAIN device
    /\ device' = [device EXCEPT ![reg] = val]
    /\ UNCHANGED <<cls, ports, reg_data, pc, last, history, step, thr, debug, app_vars>>

\* the caller takes the outcome of the call and goes on
collect ==
    /\ pc = "returned"
    /\ pc' = "idle"
    /\ last' = NoCall
    /\ history' = NoHistory
    /\ UNCHANGED <<cls, ports, reg_data, device, step, thr, debug, app_vars>>

\* the caller goes on, keeping a note of a successful enable or invert and of
\* the shadow it started from
collect_noting ==
    /\ pc = "returned"
    /\ pc' = "idle"
    /\ last' = NoCall
    /\ history' = IF last.op \in {"enable", "invert"} /\ last.outcome = "ok"
                  THEN [op |-> last.op, pins |-> Range(last.pins), before |-> last.before]
                  ELSE NoHistory
    /\ UNCHANGED <<cls, ports, reg_data, device, step, thr, debug, app_vars>>

\* the call that has just returned is call k of the walk-through
IsScriptCall(k) ==
    /\ k \in 1..Len(Script)
    /\ last.op = Script[k].op
    /\ last.io = Script[k].io
    /\ last.pins = Script[k].pins

\* the caller goes on, counting the calls of the walk-through made so far, in
\* order, each having succeeded, with no other call in between
collect_script ==
    /\ pc = "returned"
    /\ pc' = "idle"
    /\ last' = NoCall
    /\ step' = IF step # OffScript /\ IsScriptCall(step + 1) /\ last.outcome = "ok"
               THEN step + 1 ELSE OffScript
    /\ UNCHANGED <<cls, ports, reg_data, device, history, thr, debug, app_vars>>

\* no thread other than the caller's has been started
NoThreads == <<>>

NoAppCall == [op |-> "none"]

\* no CliApp object exists
NoApp ==
    /\ menu = <<>>
    /\ display_order = <<>>
    /\ quit = FALSE
    /\ app_pc = "none"
    /\ app_last = NoAppCall

(***************************************************************************)
(* enable called from two threads on one driver object.  The class holds   *)
(* no lock, so a thread can be switched out between any two statements;     *)
(* the steps below are the three accesses to what the threads share: the    *)
(* read of the shadow, the bus write, the assignment to the shadow.         *)
(***************************************************************************)
Threads == {1, 2}

\* pin arguments of a thread's enable call
ThreadPinLists == SeqsUpTo(PinSamples(ports), 1)

ThreadReady == [pc |-> "ready", pins |-> <<>>, new_cfg |-> 0, warns |-> <<>>, alone |-> TRUE]

\* thread u is between the first and the last statement of its call
InCall(u) == thr[u].pc \in {"loaded", "written"}

\* the caller starts the threads
start_threads ==
    /\ pc = "idle"
    /\ thr = NoThreads
    /\ thr' = [t \in Threads |-> ThreadReady]
    /\ UNCHANGED <<cls, ports, reg_data, device, pc, last, history, step, debug, app_vars>>

\* enable in thread t, from _validate_pins to the end of the loop:
\* new_cfg = self.reg_data[reg] and the pins or-ed into the local new_cfg
thread_enable(t, pins) ==
    /\ pc = "idle"
    /\ thr # NoThreads
    /\ thr[t].pc = "ready"
    /\ thr' = [thr EXCEPT ![t] =
                 IF ~validate_pins(pins, ports)
                 THEN [ThreadReady EXCEPT !.pc = "raised", !.pins = pins]
                 ELSE [pc |-> "loaded", pins |-> pins,
                       new_cfg |-> SetPins(reg_data[output_reg_addr(cls)], pins),
                       warns |-> InputPins(reg_data, cls, pins),
                       alone |-> \A u \in Threads \ {t} : ~InCall(u)]]
    /\ UNCHANGED <<cls, ports, reg_data, device, pc, last, history, step, debug, app_vars>>

\* _i2c_write in thread t: self._i2c_write_method(self.addr, reg_addr, data)
thread_bus_write(t) ==
    /\ thr # NoThreads
    /\ thr[t].pc = "loaded"
    /\ \E ok \in BOOLEAN :
        /\ device' = device_write(device, output_reg_addr(cls), thr[t].new_cfg, ok)
        /\ thr' = [thr EXCEPT ![t].pc = IF ok THEN "written" ELSE "raised"]
    /\ UNCHANGED <<cls, ports, reg_data, pc, last, history, step, debug, app_vars>>

\* variant: _i2c_write returns without assigning the shadow
thread_store_unassigned(t) ==
    /\ thr # NoThreads
    /\ thr[t].pc = "written"
    /\ thr' = [thr EXCEPT ![t].pc = "done"]
    /\ UNCHANGED <<cls, ports, reg_data, device, pc, last, history, step, debug, app_vars>>

\* _i2c_write in thread t: self.reg_data[reg_addr] = data, and the call returns
thread_store(t) ==
    /\ thr # NoThreads
    /\ thr[t].pc = "written"
    /\ reg_data' = i2c_write(reg_data, output_reg_addr(cls), thr[t].new_cfg, TRUE)
    /\ thr' = [thr EXCEPT ![t].pc = "done"]
    /\ UNCHANGED <<cls, ports, device, pc, last, history, step, debug, app_vars>>

(***************************************************************************)
(* CliApp (cli_app.py).  A string is a sequence of one-character strings.   *)
(***************************************************************************)
\* str.upper on one character
upper_char(ch) ==
    CASE ch = "q" -> "Q"
      [] ch = "e" -> "E"
      [] ch = "x" -> "X"
      [] ch = "z" -> "Z"
      [] OTHER -> ch

\* str.upper
upper(str) == [i \in 1..Len(str) |-> upper_char(str[i])]

RECURSIVE lstrip(_)
lstrip(str) == IF str # <<>> /\ Head(str) = " " THEN lstrip(Tail(str)) ELSE str

RECURSIVE rstrip(_)
rstrip(str) ==
    IF str # <<>> /\ str[Len(str)] = " " THEN rstrip(SubSeq(str, 1, Len(str) - 1)) ELSE str

\* str.strip
strip(str) == rstrip(lstrip(str))

\* the first word of a string that does not begin with a blank
RECURSIVE first_word(_)
first_word(str) ==
    IF str = <<>> \/ Head(str) = " " THEN <<>>
    ELSE <<Head(str)>> \o first_word(Tail(str))

\* str.split: the words between runs of blanks
RECURSIVE split(_)
split(str) ==
    LET rest == lstrip(str)
    IN IF rest = <<>> THEN <<>>
       ELSE <<first_word(rest)>>
            \o split(SubSeq(rest, Len(first_word(rest)) + 1, Len(rest)))

\* code point of a character
ord(ch) ==
    CASE ch = " " -> 32
      [] ch = "1" -> 49
      [] ch = "E" -> 69
      [] ch = "Q" -> 81
      [] ch = "X" -> 88
      [] ch = "Z" -> 90
      [] ch = "e" -> 101
      [] ch = "q" -> 113
      [] ch = "x" -> 120
      [] ch = "z" -> 122

\* a < b on strings
RECURSIVE str_lt(_, _)
str_lt(a, b) ==
    IF b = <<>> THEN FALSE
    ELSE IF a = <<>> THEN TRUE
    ELSE IF ord(Head(a)) # ord(Head(b)) THEN ord(Head(a)) < ord(Head(b))
    ELSE str_lt(Tail(a), Tail(b))

\* x put into the sorted list l, after the elements not greater than it
RECURSIVE insert_sorted(_, _)
insert_sorted(l, x) ==
    IF l = <<>> THEN <<x>>
    ELSE IF str_lt(x, Head(l)) THEN <<x>> \o l
    ELSE <<Head(l)>> \o insert_sorted(Tail(l), x)

\* list.sort on a list of strings
RECURSIVE sort(_)
sort(l) == IF l = <<>> THEN <<>> ELSE insert_sorted(sort(SubSeq(l, 1, Len(l) - 1)), l[Len(l)])

\* variant: list.remove leaving the list as it is
remove_nothing(l, x) == l

\* list.remove: l without the first occurrence of x
RECURSIVE remove(_, _)
remove(l, x) ==
    IF l = <<>> THEN <<>>
    ELSE IF Head(l) = x THEN Tail(l)
    ELSE <<Head(l)>> \o remove(Tail(l), x)

\* command strings given to add_option
CmdArgs == { <<"q">>, <<" ", "Q">>, <<"e">>, <<"E", " ">>, <<"1">> }

\* lines typed at the prompt
InputLines ==
    { <<>>, <<" ">>, <<"q">>, <<" ", "q", " ">>, <<"e">>, <<"e", " ", "x">>,
      <<"1">>, <<"1", " ", "x">>, <<"z">> }

\* option functions: self.stop, a function of one argument that returns, and
\* functions of no argument that raise
Funcs == {"stop", "get_dinner", "raise_ignore", "raise_type", "raise_error",
          "raise_interrupt"}

\* number of arguments the function takes
arity(func) == IF func = "get_dinner" THEN 1 ELSE 0

DescOf(func) == IF func = "stop" THEN "Quit application" ELSE "Run"

ArgNamesOf(func) == IF func = "get_dinner" THEN << "food" >> ELSE <<>>

NoException == [type |-> "none", positional |-> FALSE]

\* an exception: its class and whether str(err) contains "positional argument"
Exc(type, positional) == [type |-> type, positional |-> positional]

\* what self.menu[cmd]["func"](*args) raises: Python's TypeError ("... takes
\* 0 positional arguments but 1 was given") when the number of arguments is
\* not the function's, else what the function's body raises
call_raises(func, nargs) ==
    IF nargs # arity(func) THEN Exc("TypeError", TRUE)
    ELSE CASE func = "raise_ignore" -> Exc("CliAppIgnoreError", FALSE)
           [] func = "raise_type" -> Exc("TypeError", FALSE)
           [] func = "raise_error" -> Exc("Exception", FALSE)
           [] func = "raise_interrupt" -> Exc("KeyboardInterrupt", FALSE)
           [] OTHER -> NoException

\* variant: `except Exception` placed before `except CliAppIgnoreError`
on_raise_exception_first(exc) ==
    IF exc.type = "none" THEN "pass"
    ELSE IF exc.type = "KeyboardInterrupt" THEN "stop"
    ELSE "stop"

\* the except clauses of start, in their order: what the loop does with exc
on_raise(exc) ==
    IF exc.type = "none" THEN "pass"
    ELSE IF exc.type = "CliAppIgnoreError" THEN "pass"
    ELSE IF exc.type = "TypeError"
         THEN IF ~exc.positional THEN "reraise" ELSE "report"
    ELSE IF exc.type = "KeyboardInterrupt" THEN "stop"
    ELSE "stop"

\* variant: the check for a command in use left out
cmd_is_used_never(m, cmd) == FALSE

\* cmd in self.menu.keys()
cmd_is_used(m, cmd) == cmd \in DOMAIN m

Option(func, desc, argnames) == [func |-> func, desc |-> desc, args |-> argnames]

\* add_option on menu m and display order l: what it raises and what it
\* leaves in self.menu and self.display_order
added(m, l, cmd_arg, desc, func, argnames, override) ==
    LET cmd == strip(upper(cmd_arg))
    IN IF cmd_is_used(m, cmd) /\ override = FALSE
       THEN [raised |-> "CommandInUseError", menu |-> m, display_order |-> l]
       ELSE [raised |-> "none",
             menu |-> Put(m, cmd, Option(func, desc, argnames)),
             display_order |-> (IF cmd_is_used(m, cmd) THEN remove(l, cmd) ELSE l)
                               \o <<cmd>>]

\* no driver object exists
NoDriver ==
    /\ cls = "none"
    /\ ports = 0
    /\ reg_data = <<>>
    /\ device = <<>>
    /\ pc = "none"
    /\ last = NoCall
    /\ history = NoHistory
    /\ step = 0
    /\ thr = NoThreads
    /\ debug = FALSE

driver_vars == <<cls, ports, reg_data, device, pc, last, history, step, thr, debug>>

\* CliApp.add_option, called before the loop is started
add_option(cmd_arg, desc, func, argnames, override) ==
    /\ app_pc = "setup"
    /\ LET res == added(menu, display_order, cmd_arg, desc, func, argnames, override)
       IN /\ menu' = res.menu
          /\ display_order' = res.display_order
          /\ app_last' = [op |-> "add_option", cmd |-> cmd_arg, func |-> func,
                          override |-> override, raised |-> res.raised,
                          menu |-> menu, display_order |-> display_order]
    /\ app_pc' = "added"
    /\ UNCHANGED <<quit, driver_vars>>

\* the program that builds the menu goes on after an add_option call
app_continue ==
    /\ app_pc = "added"
    /\ app_pc' = "setup"
    /\ app_last' = NoAppCall
    /\ UNCHANGED <<menu, display_order, quit, driver_vars>>

\* CliApp.start up to the first test of the loop condition
start(sort_menu) ==
    /\ app_pc = "setup"
    /\ display_order' = IF sort_menu = TRUE THEN sort(display_order) ELSE display_order
    /\ app_pc' = IF quit = FALSE THEN "prompt" ELSE "exited"
    /\ app_last' = [op |-> "start", sort_menu |-> sort_menu]
    /\ UNCHANGED <<menu, quit, driver_vars>>

\* one turn of the loop of start: print_menu, input, the option's function
\* called under the try statement, and the next test of the loop condition
prompt(line) ==
    /\ app_pc = "prompt"
    /\ LET user_input == strip(line)
           inputs == split(user_input)
           cmd == IF inputs = <<>> THEN <<>> ELSE upper(inputs[1])
           args == IF inputs = <<>> THEN <<>> ELSE Tail(inputs)
           known == user_input # <<>> /\ cmd \in DOMAIN menu
           func == IF known THEN menu[cmd].func ELSE "none"
           exc == IF known THEN call_raises(func, Len(args)) ELSE NoException
           stopped == \/ on_raise(exc) = "stop"
                      \/ (known /\ exc = NoException /\ func = "stop")
       IN /\ quit' = (quit \/ stopped)
          /\ app_pc' = IF on_raise(exc) = "reraise" THEN "raised"
                       ELSE IF quit' = FALSE THEN "prompt" ELSE "exited"
          /\ app_last' = [op |-> "prompt", line |-> line, cmd |-> cmd, func |-> func,
                          args |-> args, raised |-> exc]
    /\ UNCHANGED <<menu, display_order, driver_vars>>

(***************************************************************************)
(* MAX7318_GPIOExpander (toupdate/x.max7318.py), the earlier 16-pin class.  *)
(* Its cached registers reg_output, reg_polarity and reg_config are the      *)
(* entries of reg_data under the register addresses; it writes through       *)
(* Adafruit_I2C.write16, which is not part of the repository: a failed       *)
(* transfer either raises out of the call or is swallowed by the library.    *)
(***************************************************************************)
LEGACY == "MAX7318_GPIOExpander"

MAX7318_OUTPUT_REG_ADDR == 2
MAX7318_POLARITY_REG_ADDR == 4
MAX7318_CONFIG_REG_ADDR == 6

\* the pins the legacy class accepts: 0..15, whatever the instance
LegacyPortCount == 16

\* reg_config, reg_output and reg_polarity as __init__ assigns them
LegacyDefaults ==
    [r \in {MAX7318_OUTPUT_REG_ADDR, MAX7318_POLARITY_REG_ADDR, MAX7318_CONFIG_REG_ADDR} |->
        IF r = MAX7318_POLARITY_REG_ADDR THEN 0 ELSE MAX7318_ALL_ONES]

\* how a failed write16 shows to the caller
FailureModes == {"raise", "silent"}

\* validate_pins of the legacy class
legacy_validate_pins(pins) ==
    \A i \in 1..Len(pins) : ~((pins[i] < 0) \/ (pins[i] > 15))

\* the pins for which ((1 << pin) & self.reg_config) == (1 << pin)
legacy_input_pins(rd, pins) ==
    SelectSeq(pins, LAMBDA p : BitAnd(Shl(p), rd[MAX7318_CONFIG_REG_ADDR]) = Shl(p))

\* the pins for which ((1 << pin) & self.reg_config) != (1 << pin)
legacy_output_pins(rd, pins) ==
    SelectSeq(pins, LAMBDA p : BitAnd(Shl(p), rd[MAX7318_CONFIG_REG_ADDR]) # Shl(p))

\* the write16 calls that were made: all of them, or, when a failed one
\* raises, those up to the first that failed
legacy_txns(writes, oks, mode) ==
    LET n == Len(writes)
        fails == { i \in 1..n : ~oks[i] }
        m == IF mode = "raise" /\ fails # {}
             THEN CHOOSE i \in fails : \A j \in fails : i <= j
             ELSE n
    IN [i \in 1..m |-> Txn("write", writes[i][1], writes[i][2], oks[i])]

\* the chip after the write16 calls that succeeded
legacy_device(dev, txns) ==
    [r \in DOMAIN dev |->
        IF \E i \in 1..Len(txns) : txns[i].reg = r /\ txns[i].ok
        THEN LET i == CHOOSE i \in 1..Len(txns) : txns[i].reg = r /\ txns[i].ok
             IN txns[i].val
        ELSE dev[r]]

legacy_outcome(txns, mode) ==
    IF mode = "raise" /\ (\E i \in 1..Len(txns) : ~txns[i].ok) THEN "BusError" ELSE "ok"

\* variant: the cached register assigned once its write16 has succeeded
legacy_cache_after(rd, reg, new_cfg, txns) ==
    IF \E i \in 1..Len(txns) : txns[i].reg = reg /\ txns[i].ok
    THEN Put(rd, reg, new_cfg) ELSE rd

\* self.reg_xxx |= / &= in the loop, before and whatever the write16 calls do
legacy_cache(rd, reg, new_cfg, txns) == Put(rd, reg, new_cfg)

\* the loop's assignments to one cached register, then the write16 calls
LegacyCall(op, io, pins, reg, new_cfg, writes, warns) ==
    \E mode \in FailureModes : \E oks \in [1..Len(writes) -> BOOLEAN] :
        LET txns == legacy_txns(writes, oks, mode)
        IN /\ reg_data' = legacy_cache(reg_data, reg, new_cfg, txns)
           /\ device' = legacy_device(device, txns)
           /\ Returned(op, io, pins, legacy_outcome(txns, mode), txns, NoResult, warns)

\* MAX7318_GPIOExpander.configure
legacy_configure(io, pins) ==
    /\ pc = "idle"
    /\ cls = LEGACY
    /\ IF ~legacy_validate_pins(pins)
       THEN Raised("configure", io, pins, "Exception")
       ELSE IF io \notin {"input", "output"}
       THEN Raised("configure", io, pins, "Exception")
       ELSE LET reg == MAX7318_CONFIG_REG_ADDR
                new_cfg == configure_value(io, reg_data[reg], pins)
            IN LegacyCall("configure", io, pins, reg, new_cfg,
                          << <<MAX7318_OUTPUT_REG_ADDR, reg_data[MAX7318_OUTPUT_REG_ADDR]>>,
                             <<MAX7318_POLARITY_REG_ADDR, reg_data[MAX7318_POLARITY_REG_ADDR]>>,
                             <<MAX7318_CONFIG_REG_ADDR, new_cfg>> >>,
                          <<>>)

\* MAX7318_GPIOExpander.set
legacy_set(pins) ==
    /\ pc = "idle"
    /\ cls = LEGACY
    /\ IF ~legacy_validate_pins(pins)
       THEN Raised("set", "", pins, "Exception")
       ELSE LET reg == MAX7318_OUTPUT_REG_ADDR
                new_cfg == SetPins(reg_data[reg], pins)
            IN LegacyCall("set", "", pins, reg, new_cfg, << <<reg, new_cfg>> >>,
                          legacy_input_pins(reg_data, pins))

\* MAX7318_GPIOExpander.reset
legacy_reset(pins) ==
    /\ pc = "idle"
    /\ cls = LEGACY
    /\ IF ~legacy_validate_pins(pins)
       THEN Raised("reset", "", pins, "Exception")
       ELSE LET reg == MAX7318_OUTPUT_REG_ADDR
                new_cfg == ClearPins(reg_data[reg], pins)
            IN LegacyCall("reset", "", pins, reg, new_cfg, << <<reg, new_cfg>> >>,
                          legacy_input_pins(reg_data, pins))

\* MAX7318_GPIOExpander.invert
legacy_invert(pins) ==
    /\ pc = "idle"
    /\ cls = LEGACY
    /\ IF ~legacy_validate_pins(pins)
       THEN Raised("invert", "", pins, "Exception")
       ELSE LET reg == MAX7318_POLARITY_REG_ADDR
                new_cfg == SetPins(reg_data[reg], pins)
            IN LegacyCall("invert", "", pins, reg, new_cfg, << <<reg, new_cfg>> >>,
                          legacy_output_pins(reg_data, pins))

\* MAX7318_GPIOExpander.uninvert
legacy_uninvert(pins) ==
    /\ pc = "idle"
    /\ cls = LEGACY
    /\ IF ~legacy_validate_pins(pins)
       THEN Raised("uninvert", "", pins, "Exception")
       ELSE LET reg == MAX7318_POLARITY_REG_ADDR
                new_cfg == ClearPins(reg_data[reg], pins)
            IN LegacyCall("uninvert", "", pins, reg, new_cfg, << <<reg, new_cfg>> >>,
                          legacy_output_pins(reg_data, pins))

(***************************************************************************)
(* PCA9546A_I2CSwitch and PCA9548A_I2CSwitch (toupdate/pca9546a.py,         *)
(* toupdate/pca9548a.py): a bus switch with one control register, a bit per  *)
(* downstream bus, read and written raw.  The classes keep no copy of it.    *)
(* A failed transfer of Adafruit_I2C is taken to raise out of the call.      *)
(***************************************************************************)
PCA9546A == "PCA9546A_I2CSwitch"
PCA9548A == "PCA9548A_I2CSwitch"
Switches == {PCA9546A, PCA9548A}

\* the one register of the switch
CONTROL == "control"

\* len(self.all_buses)
BusCount(c) == IF c = PCA9546A THEN 4 ELSE 8

\* bus arguments: the first two buses, the last, and the numbers next to the range
BusSamples(n) == {0, 1, 2, n, n + 1}
BusLists(n) == { <<b>> : b \in BusSamples(n) } \cup { <<1, 2>>, <<2, n>>, <<1, n + 1>> }

\* validate_bus: TRUE iff it does not raise
validate_bus(bus, n) == ~((bus < 1) \/ (bus > n))

\* validate_buses
validate_buses(buses, n) == \A i \in 1..Len(buses) : validate_bus(buses[i], n)

\* 1 << bus-1
bus_mask(bus) == Shl(bus - 1)

\* get_config, then writeRaw8(new_config) if `write`, then the readRaw8 of the
\* debug line if self.debug is True; the first failed transfer ends the call
SwitchCall(op, buses, write, new_config) ==
    \E ok_r \in BOOLEAN : \E ok_w \in BOOLEAN : \E ok_d \in BOOLEAN :
        LET config == device[CONTROL]
            written == ok_r /\ write /\ ok_w
            after == IF written THEN new_config ELSE config
            txns == BusRead(CONTROL, config, ok_r)
                    \o (IF ok_r /\ write THEN << Txn("write", CONTROL, new_config, ok_w) >>
                        ELSE <<>>)
                    \o (IF ok_r /\ (write => ok_w) /\ debug
                        THEN BusRead(CONTROL, after, ok_d) ELSE <<>>)
        IN /\ device' = [device EXCEPT ![CONTROL] = after]
           /\ UNCHANGED reg_data
           /\ Returned(op, "", buses,
                       IF \A i \in 1..Len(txns) : txns[i].ok THEN "ok" ELSE "BusError",
                       txns, NoResult, <<>>)

\* enable_bus: config |= mask for each bus, the write unconditional
enable_bus(buses) ==
    /\ pc = "idle"
    /\ cls \in Switches
    /\ IF ~validate_buses(buses, ports)
       THEN Raised("enable_bus", "", buses, "Exception")
       ELSE SwitchCall("enable_bus", buses, TRUE,
                       SetPins(device[CONTROL], [i \in 1..Len(buses) |-> buses[i] - 1]))

\* disable_bus: config &= ~mask for each bus, the write unconditional
disable_bus(buses) ==
    /\ pc = "idle"
    /\ cls \in Switches
    /\ IF ~validate_buses(buses, ports)
       THEN Raised("disable_bus", "", buses, "Exception")
       ELSE SwitchCall("disable_bus", buses, TRUE,
                       ClearPins(device[CONTROL], [i \in 1..Len(buses) |-> buses[i] - 1]))

\* enable_only_this_bus: config = mask and the write only
\* if (mask & config) != mask
enable_only_this_bus(bus) ==
    /\ pc = "idle"
    /\ cls \in Switches
    /\ IF ~validate_bus(bus, ports)
       THEN Raised("enable_only_this_bus", "", <<bus>>, "Exception")
       ELSE SwitchCall("enable_only_this_bus", <<bus>>,
                       BitAnd(bus_mask(bus), device[CONTROL]) # bus_mask(bus),
                       bus_mask(bus))

(***************************************************************************)
(* Construction                                                             *)
(***************************************************************************)
\* the chip's writable registers when the driver object is constructed: the
\* power-on defaults, or those with the first and the last pin left
\* configured as outputs by an earlier session
DeviceInits(c) ==
    LET defaults == [r \in WritableRegs(c) |-> RegDataOf(RegisterStates(c))[r]]
    IN { defaults,
         [defaults EXCEPT ![config_reg_addr(c)] = @ - Shl(PortCount(c) - 1) - 1] }

Construct(c) ==
    /\ cls = c
    /\ ports = PortCount(c)
    /\ reg_data = RegDataOf(RegisterStates(c))
    /\ device \in DeviceInits(c)
    /\ pc = "idle"
    /\ last = NoCall
    /\ history = NoHistory
    /\ step = 0
    /\ thr = NoThreads
    /\ debug = FALSE
    /\ NoApp

\* I2C_GPIO_Expander.__init__ given the MAX7318 register map, port count and
\* register addresses.  __init__ unpacks `registers` into (reg, state) pairs,
\* so the state below is the one reached when the map is passed in pair form
\* and the subclass attributes are assigned; MAX7318_GPIO_Expander.__init__
\* as written (super.__init__ on the bare `super` type, the dict passed
\* as it is) raises TypeError before any instance state exists.
Init == Construct(BASE)

\* PCA9538A_GPIO_Expander.__init__
InitPCA == Construct(PCA)

Next ==
    \/ \E pins \in PinLists(ports) : \E io \in IoArgs : configure(io, pins)
    \/ \E pins \in PinLists(ports) : enable(pins)
    \/ \E pins \in PinLists(ports) : disable(pins)
    \/ \E pins \in PinLists(ports) : invert(pins)
    \/ \E pins \in PinLists(ports) : uninvert(pins)
    \/ \E pins \in PinLists(ports) : read(pins)
    \/ init
    \/ reconfigure
    \/ collect

Spec == Init /\ [][Next]_vars

\* enable/disable and invert/uninvert called back to back
NextRoundTrip ==
    \/ \E pins \in PinLists(ports) : enable(pins)
    \/ \E pins \in PinLists(ports) : disable(pins)
    \/ \E pins \in PinLists(ports) : invert(pins)
    \/ \E pins \in PinLists(ports) : uninvert(pins)
    \/ collect_noting

SpecRoundTrip == Init /\ [][NextRoundTrip]_vars

NextPCA ==
    \/ \E pins \in PinLists(ports) : \E io \in IoArgs : configure(io, pins)
    \/ \E pins \in PinLists(ports) : enable(pins)
    \/ \E pins \in PinLists(ports) : disable(pins)
    \/ \E pins \in PinLists(ports) : invert(pins)
    \/ \E pins \in PinLists(ports) : uninvert(pins)
    \/ \E pins \in PinLists(ports) : pca_read(pins)
    \/ collect

SpecPCA == InitPCA /\ [][NextPCA]_vars

\* the bulk operations of a driver object of either class
InitBulk == Init \/ InitPCA

NextBulk ==
    \/ \E pins \in PinLists(ports) : \E io \in IoArgs : configure(io, pins)
    \/ enable_all
    \/ disable_all
    \/ invert_all
    \/ uninvert_all
    \/ read_all
    \/ pca_enable_all
    \/ pca_disable_all
    \/ pca_read_all
    \/ collect

SpecBulk == InitBulk /\ [][NextBulk]_vars

\* a caller of the 8-pin class working on pins 0, 1 and 2
NextScenario ==
    \/ \E pins \in ScenarioPinLists : \E io \in IoArgs : configure(io, pins)
    \/ \E pins \in ScenarioPinLists : enable(pins)
    \/ \E pins \in ScenarioPinLists : disable(pins)
    \/ collect_script

SpecScenario == InitPCA /\ [][NextScenario]_vars

\* the caller drives some pins low, then starts two threads that each call
\* enable once
NextThreads ==
    \/ thr = NoThreads /\ \E pins \in PinLists(ports) : disable(pins)
    \/ collect
    \/ start_threads
    \/ \E t \in Threads : \E pins \in ThreadPinLists : thread_enable(t, pins)
    \/ \E t \in Threads : thread_bus_write(t)
    \/ \E t \in Threads : thread_store(t)

SpecThreads == Init /\ [][NextThreads]_vars

\* CliApp.__init__: the empty menu, then add_option("q", "Quit application", self.stop)
InitCli ==
    /\ NoDriver
    /\ LET res == added(<<>>, <<>>, <<"q">>, DescOf("stop"), "stop", <<>>, FALSE)
       IN /\ menu = res.menu
          /\ display_order = res.display_order
    /\ quit = FALSE
    /\ app_pc = "setup"
    /\ app_last = NoAppCall

NextCli ==
    \/ \E cmd_arg \in CmdArgs : \E func \in Funcs : \E override \in BOOLEAN :
          add_option(cmd_arg, DescOf(func), func, ArgNamesOf(func), override)
    \/ app_continue
    \/ \E sort_menu \in BOOLEAN : start(sort_menu)
    \/ \E line \in InputLines : prompt(line)

SpecCli == InitCli /\ [][NextCli]_vars

\* the writers with a second bus master changing the chip in between
NextOutOfBand ==
    \/ \E pins \in FewPinLists(ports) : \E io \in IoArgs : configure(io, pins)
    \/ \E pins \in FewPinLists(ports) : enable(pins)
    \/ \E pins \in FewPinLists(ports) : disable(pins)
    \/ \E pins \in FewPinLists(ports) : invert(pins)
    \/ \E pins \in FewPinLists(ports) : uninvert(pins)
    \/ \E reg \in WritableRegs(cls) : \E val \in OutOfBandSamples : out_of_band(reg, val)
    \/ collect

SpecOutOfBand == Init /\ [][NextOutOfBand]_vars

\* every public operation of the base class, on a short choice of pins
NextOps ==
    \/ \E pins \in FewPinLists(ports) : \E io \in IoArgs : configure(io, pins)
    \/ \E pins \in FewPinLists(ports) : enable(pins)
    \/ \E pins \in FewPinLists(ports) : disable(pins)
    \/ \E pins \in FewPinLists(ports) : invert(pins)
    \/ \E pins \in FewPinLists(ports) : uninvert(pins)
    \/ \E pins \in FewPinLists(ports) : read(pins)
    \/ init
    \/ reconfigure
    \/ enable_all
    \/ disable_all
    \/ invert_all
    \/ uninvert_all
    \/ read_all
    \/ collect

SpecOps == Init /\ [][NextOps]_vars

\* MAX7318_GPIOExpander.__init__; the chip at its power-up values, or with
\* its pins 0 and 15 configured as outputs by an earlier run
InitLegacy ==
    /\ cls = LEGACY
    /\ ports = LegacyPortCount
    /\ reg_data = LegacyDefaults
    /\ device \in { LegacyDefaults,
                    [LegacyDefaults EXCEPT ![MAX7318_CONFIG_REG_ADDR] = @ - Shl(15) - 1] }
    /\ pc = "idle"
    /\ last = NoCall
    /\ history = NoHistory
    /\ step = 0
    /\ thr = NoThreads
    /\ debug = FALSE
    /\ NoApp

NextLegacy ==
    \/ \E pins \in FewPinLists(ports) : \E io \in IoArgs : legacy_configure(io, pins)
    \/ \E pins \in FewPinLists(ports) : legacy_set(pins)
    \/ \E pins \in FewPinLists(ports) : legacy_reset(pins)
    \/ \E pins \in FewPinLists(ports) : legacy_invert(pins)
    \/ \E pins \in FewPinLists(ports) : legacy_uninvert(pins)
    \/ collect

SpecLegacy == InitLegacy /\ [][NextLegacy]_vars

\* PCA954xA_I2CSwitch.__init__, with debug as the caller passed it; the
\* control register of the chip is 0 after power-up
InitSwitch ==
    /\ cls \in Switches
    /\ ports = BusCount(cls)
    /\ reg_data = <<>>
    /\ device = [r \in {CONTROL} |-> 0]
    /\ pc = "idle"
    /\ last = NoCall
    /\ history = NoHistory
    /\ step = 0
    /\ thr = NoThreads
    /\ debug \in BOOLEAN
    /\ NoApp

NextSwitch ==
    \/ \E buses \in BusLists(ports) : enable_bus(buses)
    \/ \E buses \in BusLists(ports) : disable_bus(buses)
    \/ \E bus \in BusSamples(ports) : enable_only_this_bus(bus)
    \/ collect

SpecSwitch == InitSwitch /\ [][NextSwitch]_vars

(***************************************************************************)
(* Properties                                                               *)
(***************************************************************************)
\* bit b of the non-negative integer x
Bit(x, b) == (x \div (2 ^ b)) % 2

WriterOps == {"configure", "enable", "disable", "invert", "uninvert"}
PinOps == WriterOps \cup {"read"}

OutOfRange(pin) == pin \notin 0..(ports - 1)

\* x is `before` with the bits of P forced to v and every other bit kept
BitsForced(x, before, P, v) ==
    /\ x \in 0..(2 ^ ports - 1)
    /\ \A b \in 0..(ports - 1) : Bit(x, b) = IF b \in P THEN v ELSE Bit(before, b)

\* C1: in I2C_GPIO_Expander, when a call returns, every register whose bus
\* write or bus read succeeded during the call holds in the shadow the value
\* of the last such transaction on it (the value written, the value read),
\* whatever calls came before.
C1_ShadowMirrorsBus ==
    pc = "returned" =>
        \A i \in 1..Len(last.txns) :
            (/\ last.txns[i].ok
             /\ \A j \in (i + 1)..Len(last.txns) :
                    ~(last.txns[j].ok /\ last.txns[j].reg = last.txns[i].reg))
            => /\ last.txns[i].reg \in DOMAIN reg_data
               /\ reg_data[last.txns[i].reg] = last.txns[i].val

\* a successful read stored a new INPUT value
C1_Witness ==
    /\ pc = "returned"
    /\ last.op = "read"
    /\ last.outcome = "ok"
    /\ last.txns[1].val = 1056
    /\ last.before[MAX7318_REG_ADDR_INPUTS] = 32768
    /\ reg_data[MAX7318_REG_ADDR_INPUTS] = 1056

C3_FailedWriteKeepsShadow ==
    (/\ pc = "returned"
     /\ last.op \in WriterOps
     /\ last.txns # <<>>
     /\ ~last.txns[1].ok)
    => /\ reg_data = last.before
       /\ last.outcome = "IOError"
       /\ Len(last.txns) = 1

\* a failed write of a value that differs from the shadow
C3_Witness ==
    /\ pc = "returned"
    /\ last.op = "disable"
    /\ last.pins = <<0>>
    /\ last.outcome = "IOError"
    /\ last.txns[1].val = 65534
    /\ reg_data[MAX7318_REG_ADDR_OUTPUTS] = MAX7318_ALL_ONES

\* C4: after a successful configure(D, *P), D in {input, output}, the CONFIG
\* shadow is its previous value with the bits of P set (input) or cleared
\* (output) and every other bit unchanged.
C4_ConfigureBits ==
    (/\ pc = "returned"
     /\ last.op = "configure"
     /\ last.outcome = "ok")
    => /\ last.io \in {"input", "output"}
       /\ BitsForced(reg_data[config_reg_addr(cls)], last.before[config_reg_addr(cls)],
                     Range(last.pins), IF last.io = "input" THEN 1 ELSE 0)

\* pin 0 turned back into an input while pin 15 stays an output
C4_Witness ==
    /\ pc = "returned"
    /\ last.op = "configure"
    /\ last.io = "input"
    /\ last.pins = <<0>>
    /\ last.outcome = "ok"
    /\ last.before[MAX7318_REG_ADDR_CONFIG] = 32766
    /\ reg_data[MAX7318_REG_ADDR_CONFIG] = 32767

\* C5: a successful enable(*P) (disable(*P)) leaves the OUTPUT shadow equal to
\* its previous value with the bits of P set (cleared) and the other bits
\* unchanged, and the one bus write of the call carries that whole value.
C5_EnableDisableBits ==
    (/\ pc = "returned"
     /\ last.op \in {"enable", "disable"}
     /\ last.outcome = "ok")
    => /\ BitsForced(reg_data[output_reg_addr(cls)], last.before[output_reg_addr(cls)],
                     Range(last.pins), IF last.op = "enable" THEN 1 ELSE 0)
       /\ last.txns = << Txn("write", output_reg_addr(cls),
                             reg_data[output_reg_addr(cls)], TRUE) >>

\* pin 15 enabled while pin 0 stays low
C5_Witness ==
    /\ pc = "returned"
    /\ last.op = "enable"
    /\ last.pins = <<15>>
    /\ last.outcome = "ok"
    /\ last.before[MAX7318_REG_ADDR_OUTPUTS] = 32766
    /\ reg_data[MAX7318_REG_ADDR_OUTPUTS] = 65534

\* the call that has just returned is the successful `undo` of the successful
\* `done` call noted before it, on the same set of pins
BackToBack(done, undo) ==
    /\ pc = "returned"
    /\ last.op = undo
    /\ last.outcome = "ok"
    /\ history.op = done
    /\ history.pins = Range(last.pins)

\* C6 as stated: enable(*P) then disable(*P), no bus failure in between,
\* restores the OUTPUT shadow to its value before the enable.
C6_RoundTripRestores ==
    BackToBack("enable", "disable")
    => reg_data[output_reg_addr(cls)] = history.before[output_reg_addr(cls)]

\* C6 amended: enable(*P) then disable(*P), no bus failure in between, leaves
\* the OUTPUT shadow equal to its value before the enable with the bits of P
\* cleared; that is the value before the enable exactly when no bit of P was
\* set in it.
C6_RoundTripClearsP ==
    BackToBack("enable", "disable")
    => LET now == reg_data[output_reg_addr(cls)]
           was == history.before[output_reg_addr(cls)]
       IN /\ BitsForced(now, was, history.pins, 0)
          /\ (now = was) <=> (\A p \in history.pins : Bit(was, p) = 0)

\* the round trip from a value in which the pins of P were low
C6_Witness ==
    /\ BackToBack("enable", "disable")
    /\ history.pins = {0, 15}
    /\ history.before[MAX7318_REG_ADDR_OUTPUTS] = 32766
    /\ last.before[MAX7318_REG_ADDR_OUTPUTS] = MAX7318_ALL_ONES
    /\ reg_data[MAX7318_REG_ADDR_OUTPUTS] = 32766

\* C7 as stated: invert(*P) then uninvert(*P) leaves the POLARITY shadow
\* equal to its value before the invert.
C7_RoundTripRestores ==
    BackToBack("invert", "uninvert")
    => reg_data[polarity_reg_addr(cls)] = history.before[polarity_reg_addr(cls)]

\* C7 amended: invert(*P) then uninvert(*P), both succeeding, leaves the
\* POLARITY shadow equal to its value before the invert with the bits of P
\* cleared; that is the value before the invert exactly when no bit of P was
\* set in it.
C7_RoundTripClearsP ==
    BackToBack("invert", "uninvert")
    => LET now == reg_data[polarity_reg_addr(cls)]
           was == history.before[polarity_reg_addr(cls)]
       IN /\ BitsForced(now, was, history.pins, 0)
          /\ (now = was) <=> (\A p \in history.pins : Bit(was, p) = 0)

\* the round trip on pin 0 from a value in which pin 15 is inverted
C7_Witness ==
    /\ BackToBack("invert", "uninvert")
    /\ history.pins = {0}
    /\ history.before[MAX7318_REG_ADDR_POLARITY] = 32768
    /\ last.before[MAX7318_REG_ADDR_POLARITY] = 32769
    /\ reg_data[MAX7318_REG_ADDR_POLARITY] = 32768

\* the value of the first successful bus read of the call
FirstRead == last.txns[1].val

ValidCall == \A i \in 1..Len(last.pins) : ~OutOfRange(last.pins[i])

\* C8: a read(*P) with valid pins whose bus transactions succeed returns a
\* mapping whose keys are exactly the requested pins, each value TRUE iff
\* that bit of the INPUT value just read is 1.
C8_ReadReturnsPinMap ==
    (/\ pc = "returned"
     /\ last.op = "read"
     /\ ValidCall
     /\ \A i \in 1..Len(last.txns) : last.txns[i].ok)
    => /\ last.outcome = "ok"
       /\ last.result.kind = "map"
       /\ DOMAIN last.result.map = Range(last.pins)
       /\ \A p \in Range(last.pins) : last.result.map[p] = (Bit(FirstRead, p) = 1)

\* C9: a read(*P) with valid pins issues exactly one bus read, of the INPUT
\* register, and when it succeeds the INPUT shadow holds the value read.
C9_ReadIsOneFreshRead ==
    (/\ pc = "returned"
     /\ last.op = "read"
     /\ ValidCall)
    => /\ Len(last.txns) = 1
       /\ last.txns[1].kind = "read"
       /\ last.txns[1].reg = input_reg_addr(cls)
       /\ last.txns[1].ok
          => /\ input_reg_addr(cls) \in DOMAIN reg_data
             /\ reg_data[input_reg_addr(cls)] = last.txns[1].val

\* C10: reconfigure issues three bus writes, OUTPUT then POLARITY then
\* CONFIG, each with that register's shadow value, and none to INPUT.
C10_ReconfigureWritesThree ==
    (pc = "returned" /\ last.op = "reconfigure")
    => /\ Len(last.txns) = 3
       /\ \A i \in 1..3 :
            /\ last.txns[i].kind = "write"
            /\ last.txns[i].reg =
                  <<output_reg_addr(cls), polarity_reg_addr(cls), config_reg_addr(cls)>>[i]
            /\ last.txns[i].val = last.before[last.txns[i].reg]

\* the CONFIG shadow the call that has just returned started from
ConfigBefore == last.before[config_reg_addr(cls)]

\* the call that has just returned passed _validate_pins and went to the bus
WentToBus(ops) ==
    /\ pc = "returned"
    /\ last.op \in ops
    /\ last.txns # <<>>

\* the one transaction of the call is a write of register reg
OneWriteOf(reg) ==
    /\ Len(last.txns) = 1
    /\ last.txns[1].kind = "write"
    /\ last.txns[1].reg = reg

\* C11: invert(*P) and uninvert(*P) warn for pin p exactly when the CONFIG
\* shadow has bit p clear (OUTPUT), warn for no pin configured as INPUT, and
\* issue the POLARITY write either way.
C11_InvertWarnsOutputPins ==
    WentToBus({"invert", "uninvert"})
    => /\ Range(last.warns) = {p \in Range(last.pins) : Bit(ConfigBefore, p) = 0}
       /\ OneWriteOf(polarity_reg_addr(cls))

\* C12: enable(*P) and disable(*P) warn for pin p exactly when the CONFIG
\* shadow has bit p set (INPUT); warned or not, the call issues its one
\* OUTPUT write, and once that write succeeded the OUTPUT shadow is the value
\* written.
C12_EnableWarnsInputPins ==
    WentToBus({"enable", "disable"})
    => /\ Range(last.warns) = {p \in Range(last.pins) : Bit(ConfigBefore, p) = 1}
       /\ OneWriteOf(output_reg_addr(cls))
       /\ last.txns[1].val =
             IF last.op = "enable"
             THEN SetPins(last.before[output_reg_addr(cls)], last.pins)
             ELSE ClearPins(last.before[output_reg_addr(cls)], last.pins)
       /\ last.txns[1].ok => reg_data[output_reg_addr(cls)] = last.txns[1].val

\* disable of an input pin and an output pin: one warning, the write done
C12_Witness ==
    /\ pc = "returned"
    /\ last.op = "disable"
    /\ last.pins = <<0, 15>>
    /\ ConfigBefore = 32767
    /\ last.warns = <<0>>
    /\ last.outcome = "ok"
    /\ reg_data[MAX7318_REG_ADDR_OUTPUTS] = 32766

\* C13: a read(*P) whose bus read succeeded warns once for each requested pin
\* whose CONFIG shadow bit is clear (not INPUT) and for no other pin, and the
\* mapping it returns has an entry for every requested pin, warned or not,
\* decoded from the value read.
C13_ReadWarnsNonInputPins ==
    (WentToBus({"read"}) /\ last.txns[1].ok)
    => /\ last.warns = SelectSeq(last.pins, LAMBDA p : Bit(ConfigBefore, p) = 0)
       /\ last.result.kind = "map"
       /\ DOMAIN last.result.map = Range(last.pins)
       /\ \A p \in Range(last.pins) : last.result.map[p] = (Bit(last.txns[1].val, p) = 1)

\* read of an input pin and an output pin: the output pin is warned about and
\* both entries are returned
C13_Witness ==
    /\ pc = "returned"
    /\ last.op = "read"
    /\ last.pins = <<0, 15>>
    /\ ConfigBefore = 32767
    /\ last.warns = <<15>>
    /\ last.txns[1].val = 32768
    /\ last.result.map[0] = FALSE
    /\ last.result.map[15] = TRUE

\* C16: when the bus read inside read(*P) fails, the call returns no mapping,
\* raises IOError, and the shadow (the INPUT entry included) is what it was
\* before the call.
C16_FailedReadKeepsInput ==
    (WentToBus({"read"}) /\ ~last.txns[1].ok)
    => /\ last.result = NoResult
       /\ last.outcome = "IOError"
       /\ Len(last.txns) = 1
       /\ reg_data = last.before

\* a failed read after a read that stored 1056
C16_Witness ==
    /\ pc = "returned"
    /\ last.op = "read"
    /\ last.pins = <<0, 15>>
    /\ last.outcome = "IOError"
    /\ last.before[MAX7318_REG_ADDR_INPUTS] = 1056
    /\ reg_data[MAX7318_REG_ADDR_INPUTS] = 1056

\* the bus transaction of the call that has just returned failed
BusFailed ==
    /\ pc = "returned"
    /\ last.outcome = "IOError"

\* C15 as stated: the error of a failed bus transaction carries the device
\* address and the register address of the attempted transaction.
C15_ErrorCarriesBothAddresses ==
    BusFailed
    => /\ DEVICE_ADDR \in Range(last.error.values)
       /\ last.txns[Len(last.txns)].reg \in Range(last.error.values)

\* C15 amended: the error of a failed bus transaction is an IOError whose
\* message is formatted from the device address alone; the register address
\* of the attempted transaction is not in it.
C15_ErrorCarriesDeviceAddress ==
    BusFailed
    => /\ last.error.type = "IOError"
       /\ last.error.values = << DEVICE_ADDR >>
       /\ ~last.txns[Len(last.txns)].ok
       /\ last.txns[Len(last.txns)].reg \notin Range(last.error.values)

\* a failed write of the CONFIG register
C15_Witness ==
    /\ pc = "returned"
    /\ last.op = "configure"
    /\ last.outcome = "IOError"
    /\ last.txns[1].reg = MAX7318_REG_ADDR_CONFIG
    /\ last.error.values = << DEVICE_ADDR >>

BulkWriters == {"enable_all", "disable_all", "invert_all", "uninvert_all"}

\* the register a bulk writer works on
BulkReg(op) ==
    IF op \in {"enable_all", "disable_all"}
    THEN output_reg_addr(cls) ELSE polarity_reg_addr(cls)

\* the value the pin-level operation computes from `before` for all pins
BulkValue(op, before) ==
    IF op \in {"enable_all", "invert_all"}
    THEN SetPins(before, all_pins(ports)) ELSE ClearPins(before, all_pins(ports))

\* C14: each bulk operation does what its pin-level operation does when
\* called with all pins 0..ports-1: enable_all/disable_all/invert_all/
\* uninvert_all issue the one bus write of the value with every pin set
\* (cleared) and leave the shadow as that write leaves it, and read_all
\* returns the mapping of all pins decoded from the value read.
C14_BulkEqualsPinLevel ==
    /\ (pc = "returned" /\ last.op \in BulkWriters)
       => /\ OneWriteOf(BulkReg(last.op))
          /\ last.txns[1].val = BulkValue(last.op, last.before[BulkReg(last.op)])
          /\ reg_data = i2c_write(last.before, BulkReg(last.op), last.txns[1].val,
                                  last.txns[1].ok)
    /\ (pc = "returned" /\ last.op = "read_all")
       => /\ Len(last.txns) = 1
          /\ last.txns[1].ok
             => last.result = MapResult(decode_pins(all_pins(ports), last.txns[1].val))

\* call k of the walk-through has just returned successfully, the calls
\* before it having been made in order from the constructed state
ScriptCallDone(k) ==
    /\ pc = "returned"
    /\ step = k - 1
    /\ IsScriptCall(k)
    /\ last.outcome = "ok"

\* C17: on the 8-pin class constructed with CONFIG = 0xFF and OUTPUT = 0xFF,
\* configure("output", 0, 1) leaves the CONFIG shadow 0xFC, then disable(0)
\* leaves the OUTPUT shadow 0xFE without a warning, then disable(2) leaves
\* the OUTPUT shadow 0xFA with a warning for pin 2.
C17_Walkthrough ==
    /\ ScriptCallDone(1)
       => /\ last.before[PCA9538A_REG_ADDR_CONFIG] = 255
          /\ last.before[PCA9538A_REG_ADDR_OUTPUTS] = 255
          /\ reg_data[PCA9538A_REG_ADDR_CONFIG] = 252
    /\ ScriptCallDone(2)
       => /\ reg_data[PCA9538A_REG_ADDR_OUTPUTS] = 254
          /\ last.warns = <<>>
    /\ ScriptCallDone(3)
       => /\ reg_data[PCA9538A_REG_ADDR_OUTPUTS] = 250
          /\ reg_data[PCA9538A_REG_ADDR_CONFIG] = 252
          /\ last.warns = <<2>>

\* the third call of the walk-through has returned
C17_Witness ==
    /\ ScriptCallDone(3)
    /\ cls = PCA
    /\ reg_data[PCA9538A_REG_ADDR_OUTPUTS] = 250
    /\ device[PCA9538A_REG_ADDR_OUTPUTS] = 250
    /\ last.warns = <<2>>

\* both threads' enable calls have returned normally
BothDone == thr # NoThreads /\ \A t \in Threads : thr[t].pc = "done"

\* neither call began while the other thread was inside its call
Serialized == \A t \in Threads : thr[t].alone

\* bit p is set in the OUTPUT shadow and in the chip's OUTPUT register
HighInBoth(p) ==
    /\ Bit(reg_data[output_reg_addr(cls)], p) = 1
    /\ Bit(device[output_reg_addr(cls)], p) = 1

\* C18: enable has no lock.  When two threads' enable calls on one object run
\* one after the other and both succeed, the OUTPUT shadow and the chip's
\* OUTPUT register have every pin of both calls set; a pin of a successful
\* call can be missing from them only when the calls overlapped (the lost
\* update, which C18_Witness shows to happen).
C18_SerializedKeepsBoth ==
    (BothDone /\ Serialized)
    => \A t \in Threads : \A p \in Range(thr[t].pins) : HighInBoth(p)

\* the lost update: enable(0) and enable(15) overlapped, both returned, and
\* pin 0 is low in the shadow and in the chip while pin 15 is high
C18_Witness ==
    /\ BothDone
    /\ ~Serialized
    /\ thr[1].pins = <<0>>
    /\ thr[2].pins = <<15>>
    /\ Bit(reg_data[MAX7318_REG_ADDR_OUTPUTS], 0) = 0
    /\ Bit(device[MAX7318_REG_ADDR_OUTPUTS], 0) = 0
    /\ HighInBoth(15)

\* an add_option call has just returned or raised, and the command it was
\* given, upper-cased and stripped, was a key of the menu it started from
AddedUsedCommand ==
    /\ app_pc = "added"
    /\ app_last.op = "add_option"
    /\ strip(upper(app_last.cmd)) \in DOMAIN app_last.menu

\* C19: add_option for a command whose upper-cased, stripped form is already
\* in the menu raises CommandInUseError with override=False and leaves menu
\* and display_order as they were; with override=True it does not raise and
\* the menu has, under that command, the new option in place of the old one.
C19_CommandInUse ==
    AddedUsedCommand
    => LET cmd == strip(upper(app_last.cmd))
       IN IF app_last.override = FALSE
          THEN /\ app_last.raised = "CommandInUseError"
               /\ menu = app_last.menu
               /\ display_order = app_last.display_order
          ELSE /\ app_last.raised = "none"
               /\ DOMAIN menu = DOMAIN app_last.menu
               /\ menu[cmd].func = app_last.func
               /\ \A k \in DOMAIN menu \ {cmd} : menu[k] = app_last.menu[k]
               /\ Len(display_order) = Len(app_last.display_order)
               /\ display_order[Len(display_order)] = cmd

\* " Q" refused while Q and E are in the menu
C19_Witness ==
    /\ AddedUsedCommand
    /\ app_last.cmd = <<" ", "Q">>
    /\ app_last.override = FALSE
    /\ app_last.func = "get_dinner"
    /\ app_last.raised = "CommandInUseError"
    /\ display_order = << <<"Q">>, <<"E">> >>
    /\ menu[<<"Q">>].func = "stop"

\* a turn of the loop has just run an option's function, which raised
TurnRaised(types) ==
    /\ app_last.op = "prompt"
    /\ app_last.raised.type \in types

\* the loop is at its prompt again, quit still False
PromptsAgain == quit = FALSE /\ app_pc = "prompt"

\* start has returned with quit set, no prompt having followed
ExitedByQuit == quit = TRUE /\ app_pc = "exited"

\* C20 as stated: an option function raising CliAppIgnoreError leaves quit
\* False and the loop prompts again; one raising KeyboardInterrupt or any
\* other Exception, a TypeError mentioning "positional argument" excepted,
\* sets quit and the loop exits without another prompt.
C20_ErrorsEndTheLoop ==
    /\ TurnRaised({"CliAppIgnoreError"}) => PromptsAgain
    /\ (/\ TurnRaised({"Exception", "KeyboardInterrupt", "TypeError"})
        /\ ~app_last.raised.positional)
       => ExitedByQuit

\* C20 amended: CliAppIgnoreError leaves quit False and the loop prompts
\* again; KeyboardInterrupt and any other Exception that is not a TypeError
\* set quit and the loop exits without another prompt; a TypeError not
\* mentioning "positional argument" is re-raised out of start with quit still
\* False; one mentioning it is reported and the loop prompts again.
C20_ErrorsEndTheLoopButTypeError ==
    /\ TurnRaised({"CliAppIgnoreError"}) => PromptsAgain
    /\ TurnRaised({"Exception", "KeyboardInterrupt"}) => ExitedByQuit
    /\ (TurnRaised({"TypeError"}) /\ ~app_last.raised.positional)
       => (quit = FALSE /\ app_pc = "raised")
    /\ (TurnRaised({"TypeError"}) /\ app_last.raised.positional) => PromptsAgain

\* option E raised a TypeError of its own and start let it through
C20_Witness ==
    /\ TurnRaised({"TypeError"})
    /\ ~app_last.raised.positional
    /\ app_last.line = <<"e">>
    /\ app_last.func = "raise_type"
    /\ quit = FALSE
    /\ app_pc = "raised"

\* the register each writer of the 16-pin configuration works on
OwnReg(op) ==
    CASE op = "configure" -> MAX7318_REG_ADDR_CONFIG
      [] op \in {"enable", "disable"} -> MAX7318_REG_ADDR_OUTPUTS
      [] op \in {"invert", "uninvert"} -> MAX7318_REG_ADDR_POLARITY

\* C21: a configure, enable, disable, invert or uninvert that succeeds has
\* issued exactly one bus transaction, a write addressed to its own register
\* (CONFIG, OUTPUT, OUTPUT, POLARITY, POLARITY), and every other register of
\* the shadow has the value it had before the call.
C21_OneWriteOwnRegister ==
    (/\ pc = "returned"
     /\ last.op \in WriterOps
     /\ last.outcome = "ok")
    => /\ OneWriteOf(OwnReg(last.op))
       /\ DOMAIN reg_data = DOMAIN last.before
       /\ \A r \in DOMAIN reg_data \ {OwnReg(last.op)} : reg_data[r] = last.before[r]

\* invert(0) succeeded on a shadow whose other registers are off their
\* defaults, and only POLARITY moved
C21_Witness ==
    /\ pc = "returned"
    /\ last.op = "invert"
    /\ last.pins = <<0>>
    /\ last.outcome = "ok"
    /\ last.before[MAX7318_REG_ADDR_POLARITY] = 0
    /\ reg_data[MAX7318_REG_ADDR_POLARITY] = 1
    /\ reg_data[MAX7318_REG_ADDR_OUTPUTS] = 32767
    /\ reg_data[MAX7318_REG_ADDR_CONFIG] = 65534
    /\ reg_data[MAX7318_REG_ADDR_INPUTS] = 1056

\* the value a writer computes from the shadow value `was` of its register
WriterValue(op, io, was, pins) ==
    IF op \in {"enable", "invert"} \/ (op = "configure" /\ io = "input")
    THEN SetPins(was, pins) ELSE ClearPins(was, pins)

\* C22: configure, enable, disable, invert and uninvert issue no bus read and
\* write the value computed from the shadow alone: whatever the chip's
\* register held before the call (another master may have changed it), a
\* successful call leaves in it the shadow value with the requested bits
\* changed.
C22_WritesFromShadowOnly ==
    WentToBus(WriterOps)
    => /\ \A i \in 1..Len(last.txns) : last.txns[i].kind = "write"
       /\ Len(last.txns) = 1
       /\ last.txns[1].val =
             WriterValue(last.op, last.io, last.before[OwnReg(last.op)], last.pins)
       /\ last.txns[1].ok => device[OwnReg(last.op)] = last.txns[1].val

\* the chip's OUTPUT register had been set to 0x00F0 by another master;
\* disable(0) wrote 0xFFFE, not 0x00F0 with bit 0 cleared
C22_Witness ==
    /\ pc = "returned"
    /\ last.op = "disable"
    /\ last.pins = <<0>>
    /\ last.outcome = "ok"
    /\ last.before[MAX7318_REG_ADDR_OUTPUTS] = MAX7318_ALL_ONES
    /\ last.dev_before[MAX7318_REG_ADDR_OUTPUTS] = 240
    /\ device[MAX7318_REG_ADDR_OUTPUTS] = 65534

ReadsInShadowOrder ==
    /\ Len(last.txns) \in 1..Len(RegKeys(cls))
    /\ \A i \in 1..Len(last.txns) :
          /\ last.txns[i].kind = "read"
          /\ last.txns[i].reg = RegKeys(cls)[i]
          /\ i < Len(last.txns) => last.txns[i].ok

SucceededOn(r) ==
    \E i \in 1..Len(last.txns) : last.txns[i].reg = r /\ last.txns[i].ok

\* shadow register r holds what it held when the call began
ShadowKept(r) == r \in DOMAIN last.before /\ reg_data[r] = last.before[r]

\* C24: a shadow register differs from its value before the call only if a
\* bus transaction on that same register completed successfully in the call;
\* a call that fails validation or is given an invalid direction leaves the
\* whole shadow as it was, and the register of a failed transaction keeps
\* its value.
C24_ShadowChangesOnlyOnSuccess ==
    pc = "returned"
    => /\ DOMAIN last.before \subseteq DOMAIN reg_data
       /\ \A r \in DOMAIN reg_data : ~ShadowKept(r) => SucceededOn(r)
       /\ last.txns = <<>> => reg_data = last.before
       /\ \A i \in 1..Len(last.txns) :
             ~last.txns[i].ok => ShadowKept(last.txns[i].reg)

\* a failed write of a new OUTPUT value left the shadow alone
C24_Witness ==
    /\ pc = "returned"
    /\ last.op = "disable"
    /\ last.pins = <<0>>
    /\ last.outcome = "IOError"
    /\ last.txns[1].val = 65534
    /\ reg_data[MAX7318_REG_ADDR_OUTPUTS] = MAX7318_ALL_ONES
    /\ reg_data = last.before

\* the values a register of `ports` bits can hold
RegisterWidth == 0..(Shl(ports) - 1)

\* C25: every shadow register value is within [0, 2^port_count) after any
\* sequence of calls, and so is every value passed to a bus write.
C25_ValuesWithinWidth ==
    /\ \A r \in DOMAIN reg_data : reg_data[r] \in RegisterWidth
    /\ pc = "returned"
       => \A i \in 1..Len(last.txns) :
             last.txns[i].kind = "write" => last.txns[i].val \in RegisterWidth

\* the highest pin set again in OUTPUT: the largest value of the width written
C25_Witness ==
    /\ pc = "returned"
    /\ last.op = "enable"
    /\ last.pins = << ports - 1 >>
    /\ last.outcome = "ok"
    /\ last.before[MAX7318_REG_ADDR_OUTPUTS] = 32767
    /\ last.txns[1].val = Shl(ports) - 1
    /\ reg_data[MAX7318_REG_ADDR_OUTPUTS] = Shl(ports) - 1

\* the chip's register R and the shadow's agree
InSync(R) == R \in DOMAIN reg_data /\ device[R] = reg_data[R]

\* C26: with no change made out of band, a writable register that a call
\* wrote or loaded successfully is in agreement with its shadow when the call
\* returns, and a register in agreement stays in agreement through every
\* later step, failed calls included.
C26_ShadowTracksDevice ==
    [][ \A R \in WritableRegs(cls) :
           (\/ InSync(R)
            \/ /\ pc' = "returned"
               /\ \E i \in 1..Len(last'.txns) :
                     last'.txns[i].reg = R /\ last'.txns[i].ok)
           => (R \in DOMAIN reg_data' /\ device'[R] = reg_data'[R]) ]_vars

\* CONFIG, brought into agreement with the chip earlier, still agrees after a
\* configure whose write failed
C26_Witness ==
    /\ pc = "returned"
    /\ last.op = "configure"
    /\ last.io = "input"
    /\ last.pins = <<0>>
    /\ last.outcome = "IOError"
    /\ last.txns[1].val = 32767
    /\ reg_data[MAX7318_REG_ADDR_CONFIG] = 32766
    /\ device[MAX7318_REG_ADDR_CONFIG] = 32766

\* C27: when the k-th bus read of init fails, the shadows of the registers
\* read before it hold the values just read, the shadows of the k-th and
\* later registers hold their old values, and the error propagates.
C27_InitNotAtomic ==
    (pc = "returned" /\ last.op = "init" /\ last.outcome = "IOError")
    => LET keys == RegKeys(cls)
           k == Len(last.txns)
       IN /\ k \in 1..Len(keys)
          /\ ~last.txns[k].ok
          /\ \A i \in 1..(k - 1) :
                last.txns[i].ok /\ reg_data[keys[i]] = last.txns[i].val
          /\ \A i \in k..Len(keys) : reg_data[keys[i]] = last.before[keys[i]]
          /\ last.error # NoError

\* the fourth read failed: INPUT holds the levels just read, CONFIG its old
\* value, which is not the chip's
C27_Witness ==
    /\ pc = "returned"
    /\ last.op = "init"
    /\ last.outcome = "IOError"
    /\ Len(last.txns) = 4
    /\ last.before[MAX7318_REG_ADDR_INPUTS] = 0
    /\ reg_data[MAX7318_REG_ADDR_INPUTS] = 1056
    /\ reg_data[MAX7318_REG_ADDR_CONFIG] = MAX7318_ALL_ONES
    /\ device[MAX7318_REG_ADDR_CONFIG] = 32766

LegacyWriters == {"configure", "set", "reset", "invert", "uninvert"}

\* the cached register a legacy writer assigns
LegacyOwnReg(op) ==
    CASE op = "configure" -> MAX7318_CONFIG_REG_ADDR
      [] op \in {"set", "reset"} -> MAX7318_OUTPUT_REG_ADDR
      [] op \in {"invert", "uninvert"} -> MAX7318_POLARITY_REG_ADDR

\* the value the loop of a legacy writer leaves in its cached register
LegacyValue(op, io, was, pins) ==
    IF op \in {"set", "invert"} \/ (op = "configure" /\ io = "input")
    THEN SetPins(was, pins) ELSE ClearPins(was, pins)

\* the call got as far as the bus, and no write of its own register succeeded
LegacyOwnWriteFailed ==
    /\ pc = "returned"
    /\ cls = LEGACY
    /\ last.op \in LegacyWriters
    /\ \E i \in 1..Len(last.txns) : ~last.txns[i].ok
    /\ ~SucceededOn(LegacyOwnReg(last.op))

\* C28: the legacy writers assign the cached register before the bus write,
\* so after a failed write the cache holds the newly computed value while the
\* chip's register is as it was: where the two agreed before the call and the
\* call asked for a change, the cache no longer equals the chip's value.
C28_LegacyCacheAhead ==
    LegacyOwnWriteFailed
    => LET R == LegacyOwnReg(last.op)
       IN /\ reg_data[R] = LegacyValue(last.op, last.io, last.before[R], last.pins)
          /\ device[R] = last.dev_before[R]
          /\ (last.before[R] = last.dev_before[R] /\ reg_data[R] # last.before[R])
             => reg_data[R] # device[R]

\* reset(0) whose write failed: the cache says 0xFFFE, the chip still 0xFFFF
C28_Witness ==
    /\ LegacyOwnWriteFailed
    /\ last.op = "reset"
    /\ last.pins = <<0>>
    /\ last.before[MAX7318_OUTPUT_REG_ADDR] = MAX7318_ALL_ONES
    /\ reg_data[MAX7318_OUTPUT_REG_ADDR] = 65534
    /\ device[MAX7318_OUTPUT_REG_ADDR] = MAX7318_ALL_ONES

\* C29: after a successful enable_only_this_bus(b) the control register has
\* exactly bit b-1 set and every other bus bit clear, whatever it held before.
C29_OnlyThisBus ==
    (pc = "returned" /\ last.op = "enable_only_this_bus" /\ last.outcome = "ok")
    => device[CONTROL] = bus_mask(last.pins[1])

\* C30: display_order holds every key of menu exactly once and nothing else,
\* after construction and after every add_option, raising or not; an
\* overridden command is moved to the end of display_order, the other
\* commands keeping their order.
C30_DisplayOrderListsMenu ==
    /\ Range(display_order) = DOMAIN menu
    /\ Len(display_order) = Cardinality(DOMAIN menu)
    /\ (AddedUsedCommand /\ app_last.override = TRUE)
       => LET cmd == strip(upper(app_last.cmd))
          IN /\ display_order[Len(display_order)] = cmd
             /\ SubSeq(display_order, 1, Len(display_order) - 1)
                = SelectSeq(app_last.display_order, LAMBDA k : k # cmd)

\* Q overridden while E stands after it: Q goes behind E
C30_Witness ==
    /\ AddedUsedCommand
    /\ app_last.override = TRUE
    /\ app_last.display_order = << <<"Q">>, <<"E">> >>
    /\ display_order = << <<"E">>, <<"Q">> >>
    /\ DOMAIN menu = { <<"Q">>, <<"E">> }

====
